---------------------------- MODULE Spec2Model ----------------------------
(***************************************************************************)
(* A model of src/bot.py: a Telegram bot that analyses a media URL,        *)
(* offers quality choices, downloads the chosen format with yt-dlp on a    *)
(* worker thread while a progress hook schedules throttled message edits   *)
(* on the event loop, then verifies, uploads and cleans up the file.       *)
(*                                                                         *)
(* Handlers are dispatched one update at a time (the Application is built  *)
(* with its defaults, src/bot.py:274-281), so a handler is one sequential  *)
(* process whose steps are the segments between its awaits.  What runs     *)
(* beside it is the download worker (download_sync and the progress hook   *)
(* it calls) and the edit coroutines the hook has scheduled on the loop.   *)
(*                                                                         *)
(* Python values are tagged records (PyNone, PyStr, PyInt); a              *)
(* dict is a function whose DOMAIN is its key set.  Text the code edits    *)
(* character by character is a sequence of one-character strings.          *)
(* The messaging call that opens a handler's reply (the welcome, the       *)
(* rejection, the analysing message, query.answer and the edits of lines   *)
(* 173-182) is taken to succeed; every later one, inside the try blocks    *)
(* and in their except blocks, may raise.  Filesystem calls succeed.       *)
(***************************************************************************)
EXTENDS Integers, Sequences, FiniteSets, TLC

VARIABLES
    user_data,    \* context.user_data: the per-user session dict
    pc,           \* where the running handler stands ("idle": none running)
    loc,          \* the running handler's locals
    chat,         \* the chat: every message the bot has sent, as it shows now
    fs,           \* the downloads directory: path -> size of each file
    tracker,      \* the DownloadProgress instance of the running download
    clock,        \* time.time() at its last reading
    pending,      \* edit coroutines scheduled on the loop, not yet executed
    hooklog,      \* history: one entry per progress_hook call
    sent,         \* history: attachments the bot has uploaded
    upd,          \* history: the update being handled (or last handled)
    calls,        \* history: collaborator invocations made for upd
    outcome,      \* history: how the handling of upd ended ("none": running)
    produced,     \* history: paths written by the download started for upd
    resolved,     \* history: the file Verify resolved for upd, and its size
    analysed,     \* history: what get_formats_sync returned for upd
    active,       \* history: status messages of download requests under way
    blocking,     \* history: blocking operations done for upd, and where
    history       \* history: the text messages taken, and how each went

vars == <<user_data, pc, loc, chat, fs, tracker, clock, pending, hooklog,
          sent, upd, calls, outcome, produced, resolved, analysed, active,
          blocking, history>>

-----------------------------------------------------------------------------
(* Python values *)

PyNone == [t |-> "none"]
PyStr(s) == [t |-> "str", v |-> s]
PyInt(n) == [t |-> "int", v |-> n]

\* bool(x)
Truthy(x) ==
    CASE x.t = "none" -> FALSE
      [] x.t = "int" -> x.v # 0
      [] x.t = "str" -> x.v # <<>>
      [] OTHER -> TRUE

\* d.get(k, default)
Get(d, k, default) == IF k \in DOMAIN d THEN d[k] ELSE default

\* a or b
Or(a, b) == IF Truthy(a) THEN a ELSE b

EmptyDict == [k \in {} |-> PyNone]

Min(a, b) == IF a <= b THEN a ELSE b
Max(a, b) == IF a >= b THEN a ELSE b

\* the backtick character (the lexer takes no backtick inside a string literal)
Backtick == "<backtick>"

\* s.replace(c, '') for a one-character c
Replace(s, c) == SelectSeq(s, LAMBDA x : x # c)

SanitizeNoBacktick(s) == Replace(Replace(s, "*"), "_")

\* the chain of three replace() calls that strips star, underscore and backtick
Sanitize(s) == Replace(Replace(Replace(s, "*"), "_"), Backtick)

\* s.startswith(p)
StartsWith(s, p) == Len(s) >= Len(p) /\ SubSeq(s, 1, Len(p)) = p

HttpPrefix == <<"h", "t", "t", "p", ":", "/", "/">>
HttpsPrefix == <<"h", "t", "t", "p", "s", ":", "/", "/">>

LooksLikeUrlSchemeOnly(url) == StartsWith(url, <<"h", "t", "t", "p">>)

\* url.startswith(('http://', 'https://'))
LooksLikeUrl(url) == StartsWith(url, HttpPrefix) \/ StartsWith(url, HttpsPrefix)


-----------------------------------------------------------------------------
(* ask_quality: the choice keyboard *)

\* f.get('vcodec') != 'none' and f.get('height')
IsVideoFormat(f) ==
    /\ Get(f, "vcodec", PyNone) # PyStr("none")
    /\ Truthy(Get(f, "height", PyNone))

\* the loop that fills the set resolutions
Resolutions(formats) ==
    {formats[i]["height"].v : i \in {j \in 1..Len(formats) : IsVideoFormat(formats[j])}}

SetMax(S) == CHOOSE m \in S : \A x \in S : x <= m
SetMin(S) == CHOOSE m \in S : \A x \in S : m <= x

\* sorted(list(resolutions), reverse=True)
RECURSIVE SortedDesc(_)
SortedDesc(S) ==
    IF S = {} THEN <<>> ELSE <<SetMax(S)>> \o SortedDesc(S \ {SetMax(S)})

MaxVideoButtons == 4

HeadAll(s, n) == s

\* s[:n]
Head_(s, n) == SubSeq(s, 1, Min(n, Len(s)))

VideoButton(res) ==
    [text |-> [k |-> "Video", res |-> res], callback_data |-> <<"video", ToString(res)>>]
BestButton == [text |-> [k |-> "Best Video"], callback_data |-> <<"video", "best">>]
AudioButton == [text |-> [k |-> "Audio Only (MP3)"], callback_data |-> <<"audio", "best">>]
CancelButton == [text |-> [k |-> "Cancel"], callback_data |-> <<"cancel">>]

KeyboardBestAlways(sorted_res) ==
    [i \in 1..Len(Head_(sorted_res, MaxVideoButtons)) |->
        VideoButton(Head_(sorted_res, MaxVideoButtons)[i])]
    \o <<BestButton>> \o <<AudioButton, CancelButton>>

\* the rows appended to keyboard, one button a row
Keyboard(sorted_res) ==
    [i \in 1..Len(Head_(sorted_res, MaxVideoButtons)) |->
        VideoButton(Head_(sorted_res, MaxVideoButtons)[i])]
    \o (IF sorted_res = <<>> THEN <<BestButton>> ELSE <<>>)
    \o <<AudioButton, CancelButton>>

-----------------------------------------------------------------------------
(* DownloadProgress._update_message: the text of a progress edit *)

Bars == 15

\* c * n for a one-character string c: empty when n <= 0
Rep(c, n) == [i \in 1..Max(n, 0) |-> c]

\* float(x) raises TypeError on None
FloatOk(x) == x.t = "int"

\* d.get('total_bytes', 1) or d.get('total_bytes_estimate', 1)
Denominator(d) ==
    Or(Get(d, "total_bytes", PyInt(1)), Get(d, "total_bytes_estimate", PyInt(1)))

Numerator(d) == Get(d, "downloaded_bytes", PyInt(0))

\* whether the try block of _update_message runs to its end: both float()
\* conversions succeed and the division is not by zero
BarComputable(d) ==
    /\ FloatOk(Numerator(d))
    /\ FloatOk(Denominator(d))
    /\ Denominator(d).v # 0

\* The float arithmetic of lines 54-59: IEEE-754 binary64, round to nearest,
\* ties to even.  A positive double is [m |-> bits, e |-> k]: a mantissa of
\* MantissaBits bits, most significant first and leading bit 1, whose last
\* bit is worth 2^k.  Only what the code uses is modelled: int / int,
\* small int * float and int(float), on positive values.  The bits are
\* worked out LimbBits at a time, so that no intermediate number passes 2^31.
MantissaBits == 53
LimbBits == 18

\* the integer a bit sequence spells
RECURSIVE BitsToInt(_)
BitsToInt(b) ==
    IF Len(b) = 0 THEN 0 ELSE 2 * BitsToInt(SubSeq(b, 1, Len(b) - 1)) + b[Len(b)]

\* the n low bits of v
Bits(v, n) == [i \in 1..n |-> (v \div 2^(n - i)) % 2]

\* the bits of a positive integer
IntToBits(v) == Bits(v, CHOOSE n \in 1..31 : 2^(n - 1) <= v /\ v \div 2 < 2^(n - 1))

\* x + one unit in the last place: the carry runs up from the last bit, and
\* a mantissa of ones becomes 1 0 ... 0 one binary place higher
RoundUp(x) ==
    LET b == x.m
        zeros == {i \in 1..Len(b) : b[i] = 0}
    IN  IF zeros = {}
        THEN [m |-> [i \in 1..Len(b) |-> IF i = 1 THEN 1 ELSE 0], e |-> x.e + 1]
        ELSE LET k == CHOOSE i \in zeros : \A j \in zeros : j <= i
             IN  [m |-> [i \in 1..Len(b) |-> IF i < k THEN b[i] ELSE IF i = k THEN 1 ELSE 0],
                  e |-> x.e]

\* round an exact value to MantissaBits bits: b are its bits (more than
\* MantissaBits of them, leading bit 1), e is what bit MantissaBits is worth
RoundBits(b, e) ==
    LET kept == [m |-> SubSeq(b, 1, MantissaBits), e |-> e]
        guard == b[MantissaBits + 1]
        below == \E i \in (MantissaBits + 2)..Len(b) : b[i] = 1
    IN  IF guard = 1 /\ (below \/ b[MantissaBits] = 1) THEN RoundUp(kept) ELSE kept

\* float(n) / float(d) for integers 0 < n, d < 2^12
FloatDiv(n, d) ==
    LET \* n / d lies in [2^k, 2^(k+1))
        k == CHOOSE j \in -12..12 :
                 IF j >= 0 THEN d * 2^j <= n /\ n < d * 2^(j + 1)
                 ELSE d <= n * 2^(-j) /\ n * 2^(-j) < 2 * d
        num == IF k >= 0 THEN n ELSE n * 2^(-k)
        den == IF k >= 0 THEN d * 2^k ELSE d
        \* long division, three limbs after the leading 1
        r0 == num - den
        r1 == (r0 * 2^LimbBits) % den
        r2 == (r1 * 2^LimbBits) % den
        r3 == (r2 * 2^LimbBits) % den
        q == <<1>> \o Bits((r0 * 2^LimbBits) \div den, LimbBits)
                   \o Bits((r1 * 2^LimbBits) \div den, LimbBits)
                   \o Bits((r2 * 2^LimbBits) \div den, LimbBits)
                   \o << IF r3 = 0 THEN 0 ELSE 1 >>
    IN  RoundBits(q, k - (MantissaBits - 1))

\* float(c) * x for an integer 2 <= c < 2^12
FloatMul(c, x) ==
    LET \* the mantissa in three limbs, lowest last
        hi == BitsToInt(SubSeq(x.m, 1, MantissaBits - 2 * LimbBits))
        mid == BitsToInt(SubSeq(x.m, MantissaBits - 2 * LimbBits + 1, MantissaBits - LimbBits))
        lo == BitsToInt(SubSeq(x.m, MantissaBits - LimbBits + 1, MantissaBits))
        plo == lo * c
        pmid == mid * c + plo \div 2^LimbBits
        phi == hi * c + pmid \div 2^LimbBits
        p == IntToBits(phi) \o Bits(pmid % 2^LimbBits, LimbBits)
                            \o Bits(plo % 2^LimbBits, LimbBits)
    IN  RoundBits(p, x.e + (Len(p) - MantissaBits))

\* int(x): the bits of x above the binary point, for x < 2^31
FloatInt(x) ==
    IF MantissaBits + x.e <= 0 THEN 0
    ELSE BitsToInt(SubSeq(x.m, 1, MantissaBits + x.e))

\* int(bars * pct) and int(pct * 100) with pct = float(num) / float(den),
\* for num >= 0 and den > 0 (29 of 50 bytes is 57%, not 58%)
Filled(d) ==
    IF Numerator(d).v = 0 THEN 0
    ELSE FloatInt(FloatMul(Bars, FloatDiv(Numerator(d).v, Denominator(d).v)))

Percent(d) ==
    IF Numerator(d).v = 0 THEN 0
    ELSE FloatInt(FloatMul(100, FloatDiv(Numerator(d).v, Denominator(d).v)))

Placeholder == <<"Traitement...">>

\* s.strip(), for blanks
Strip(s) ==
    LET inked == {i \in 1..Len(s) : s[i] # " "}
    IN  IF inked = {} THEN <<>>
        ELSE SubSeq(s, CHOOSE i \in inked : \A j \in inked : i <= j,
                       CHOOSE i \in inked : \A j \in inked : j <= i)

\* lines 48-50: d.get(k, '').strip() raises AttributeError when the event
\* holds the key with a value that is no string
FieldOk(d, k) == Get(d, k, PyStr(<<>>)).t = "str"

\* d.get(k, '').strip(): the collaborator's preformatted field
Field(d, k) == PyStr(Strip(Get(d, k, PyStr(<<>>)).v))

\* whether _update_message(d) raises, out of progress_hook and into the
\* downloader that called it: lines 48-50 stand outside the try block
UpdateRaises(d, finished) ==
    /\ ~finished
    /\ ~(FieldOk(d, "_percent_str") /\ FieldOk(d, "_speed_str") /\ FieldOk(d, "_eta_str"))

\* the text _update_message builds
ProgressText(d, finished) ==
    IF finished
    THEN [kind |-> "complete"]
    ELSE IF BarComputable(d)
         THEN [kind |-> "downloading",
               bar |-> Rep("#", Filled(d)) \o Rep("-", Bars - Filled(d)),
               pct_str |-> PyStr(<<ToString(Percent(d)), "%">>),
               speed |-> Field(d, "_speed_str"), eta |-> Field(d, "_eta_str")]
         ELSE [kind |-> "downloading",
               bar |-> Placeholder,
               pct_str |-> Field(d, "_percent_str"),
               speed |-> Field(d, "_speed_str"), eta |-> Field(d, "_eta_str")]

ThrottleSeconds == 3

\* current_time - self.last_update > 3
Due(now, last) == now - last > ThrottleSeconds

-----------------------------------------------------------------------------
(* button_click: paths and the downloads directory *)

NoPath == [t |-> "none"]
Path(base, ext) == [t |-> "path", base |-> base, ext |-> ext]

\* os.path.splitext(p)[0]
SplitextBase(p) == p.base

\* os.path.exists(p)
Exists(files, p) == p \in DOMAIN files

\* the extensions probed when the expected path is absent, in order
ProbedExts == <<".mp4", ".mkv", ".webm", ".mp3">>

\* lines 218-224: the path the handler goes on with
ResolvePath(files, file_path) ==
    IF Exists(files, file_path)
    THEN file_path
    ELSE LET base == SplitextBase(file_path)
             hits == {i \in 1..Len(ProbedExts) : Exists(files, Path(base, ProbedExts[i]))}
         IN  IF hits = {} THEN file_path
             ELSE Path(base, ProbedExts[SetMin(hits)])

MaxUploadBytes == 50 * 1024 * 1024

NeverTooLarge(size) == FALSE

TooLargeInclusive(size) == size >= MaxUploadBytes

\* file_size > 50 * 1024 * 1024
TooLarge(size) == size > MaxUploadBytes

\* os.remove(p)
Remove(files, p) == [q \in DOMAIN files \ {p} |-> files[q]]

\* the finally block: remove file_path if it is set and exists
Cleanup(files, file_path) ==
    IF file_path # NoPath /\ Exists(files, file_path)
    THEN Remove(files, file_path)
    ELSE files

-----------------------------------------------------------------------------
(* Bounds and input sets *)

MaxMsgs == 2          \* messages the bot sends in one run
MaxWrites == 2        \* files one download writes
MaxDlEvents == 1      \* progress_hook calls during one download (SpecDownload)
MaxHookCalls == 3     \* progress_hook calls on one instance (SpecThrottle)
MaxRenderCalls == 1   \* progress_hook calls on one instance (SpecRender)
MaxGap == 4           \* seconds between two readings of the clock
MaxBytes == 3         \* downloaded_bytes of a progress event
MaxFormats == 6       \* length of info['formats'] (SpecKeyboard)
Epoch == 10           \* time.time() when the run starts

UrlA == HttpPrefix \o <<"a">>
UrlB == HttpsPrefix \o <<"b">>

\* texts that are not URLs: another scheme, a cut scheme, another case
BadTexts ==
    { <<"f", "t", "p", ":", "/", "/", "a">>,
      <<"h", "t", "t", "p", ":", "a">>,
      <<"H", "T", "T", "P", ":", "/", "/", "a">> }

Texts == {UrlA, UrlB} \cup BadTexts

DirtyTitle == <<"*", "t", "_", Backtick>>
CleanTitle == <<"t">>
DirtyUploader == <<"u", "_", "*">>

Fmt(vcodec, height) == [vcodec |-> PyStr(vcodec), height |-> height]

ExampleHeights == <<720, 720>>

\* what extract_info(url, download=False) returns, in Spec
AnalysisInfos ==
    { [title |-> PyStr(DirtyTitle), uploader |-> PyStr(DirtyUploader),
       formats |-> [i \in 1..Len(ExampleHeights) |-> Fmt("avc1", PyInt(ExampleHeights[i]))]],
      [title |-> PyStr(CleanTitle)],
      [title |-> PyStr(CleanTitle), uploader |-> PyNone,
       formats |-> <<Fmt("none", PyNone)>>] }

\* what extract_info(url, download=True) returns: a title and the extension
\* prepare_filename fills into the output template
DownloadInfos ==
    { [title |-> PyStr(DirtyTitle), ext |-> ".mp4"],
      [title |-> PyNone, ext |-> ".mp4"],
      [ext |-> ".webm"] }

\* extensions a download may write: the four probed ones, one that is not
\* probed, and the downloader's partial file
WrittenExts == {".mp4", ".mkv", ".webm", ".mp3", ".flv", ".part"}

FileSizes == {1, MaxUploadBytes, MaxUploadBytes + 1}

\* str(e) of what a collaborator raises
CollaboratorErrors == { <<"e", "*", "_", Backtick>> }
ApiError == <<"B", "a", "d", "_", "R", "e", "q">>
FileNotFoundError == <<"File not found after download.">>
AttributeError == <<"'NoneType' object has no attribute 'replace'">>

Ok == <<>>
ApiResults == {Ok, ApiError}

\* the directory and identifier part of the output template, filled in by
\* the collaborator: one identifier per URL
Base(url) == "downloads/" \o url[Len(url)]

-----------------------------------------------------------------------------
(* State *)

Msg(text, kb) == [live |-> TRUE, text |-> text, reply_markup |-> kb]

\* message.edit_text(text) without reply_markup drops the keyboard
EditText(c, m, text) == [c EXCEPT ![m] = [@ EXCEPT !.text = text, !.reply_markup = <<>>]]
DeleteNothing(c, m) == c

\* message.delete()
Delete(c, m) == [c EXCEPT ![m] = [@ EXCEPT !.live = FALSE, !.reply_markup = <<>>]]

NoCalls == [extract |-> 0, download |-> 0, send_video |-> 0, send_audio |-> 0]
NoUpdate == [type |-> "none"]
NoLocals == [data |-> <<>>]
NoTracker == [message |-> 0, last_update |-> 0]
NoInfo == [t |-> "none"]

\* a choice prompt left in the chat by an earlier run of the process, whose
\* session did not survive the restart
StalePrompt ==
    Msg([kind |-> "prompt", title |-> CleanTitle, uploader |-> <<"Unknown">>],
        Keyboard(<<720>>))

\* the files an earlier run of the process may have left in downloads/
StaleFiles == {Path(Base(UrlA), ".mp4"), Path(Base(UrlA), ".mkv")}

\* lines 271-272: downloads/ is created when missing and never emptied, so
\* it is empty or holds what an earlier run left
StartDirs == {EmptyDict} \cup {[p \in {f} |-> 1] : f \in StaleFiles}

\* the process has just started: no session, no handler running; the chat
\* is empty or holds the stale prompt
Init ==
    /\ user_data = EmptyDict
    /\ pc = "idle"
    /\ loc = NoLocals
    /\ chat \in {<<>>, <<StalePrompt>>}
    /\ fs \in StartDirs
    /\ tracker = NoTracker
    /\ clock = Epoch
    /\ pending = <<>>
    /\ hooklog = <<>>
    /\ sent = <<>>
    /\ upd = NoUpdate
    /\ calls = NoCalls
    /\ outcome = "none"
    /\ produced = {}
    /\ resolved = NoPath
    /\ analysed = NoInfo
    /\ active = {}
    /\ blocking = {}
    /\ history = <<>>

\* what every handler does to the history variables when it takes an update
Begin(u) ==
    /\ upd' = u
    /\ sent' = <<>>
    /\ produced' = {}
    /\ hooklog' = <<>>
    /\ resolved' = NoPath
    /\ analysed' = NoInfo
    /\ blocking' = {}

\* button_click returns: its locals and its DownloadProgress instance die
Return ==
    /\ pc' = "idle"
    /\ loc' = NoLocals
    /\ tracker' = NoTracker
    /\ active' = active \ {loc.msg}

\* lines 274-281: the Application is built with its defaults (no concurrent
\* updates, blocking handlers), so it takes the next update only when the
\* handler of the previous one has returned
DispatchableAlways == TRUE

Dispatchable == pc = "idle"

\* where a blocking operation runs: in the executor's worker thread, or in
\* the coroutine itself, on the event loop
OnWorker(op) == [op |-> op, on |-> "worker"]
OnLoop(op) == [op |-> op, on |-> "loop"]

-----------------------------------------------------------------------------
(* start *)

start ==
    /\ Dispatchable
    /\ Begin([type |-> "start"])
    /\ chat' = Append(chat, Msg([kind |-> "welcome"], <<>>))
    /\ calls' = NoCalls
    /\ outcome' = "welcomed"
    /\ UNCHANGED <<user_data, pc, loc, fs, tracker, clock, pending, active, history>>

-----------------------------------------------------------------------------
(* ask_quality *)

\* lines 98-105: reject the text, or send the analysing message.  Either
\* call is awaited: the coroutine goes on when the loop resumes it.
ask_quality(text) ==
    /\ Dispatchable
    /\ Begin([type |-> "text", text |-> text, session |-> user_data])
    /\ calls' = NoCalls
    /\ IF ~LooksLikeUrl(text)
       THEN /\ chat' = Append(chat, Msg([kind |-> "invalid_url"], <<>>))
            /\ outcome' = "rejected"
            /\ UNCHANGED <<pc, loc>>
       ELSE /\ chat' = Append(chat, Msg([kind |-> "analyzing"], <<>>))
            /\ outcome' = "none"
            /\ pc' = "ask_sent"
            /\ loc' = [url |-> text, msg |-> Len(chat) + 1, err |-> Ok]
    /\ history' = Append(history, [text |-> text, extracted |-> FALSE, prompted |-> FALSE])
    /\ UNCHANGED <<user_data, fs, tracker, clock, pending, active>>

\* lines 107-109, resumed after the analysing message: get_formats_sync is
\* submitted to the executor and awaited
SubmitGetFormats ==
    /\ pc = "ask_sent"
    /\ calls' = [calls EXCEPT !.extract = @ + 1]
    /\ pc' = "analyzing"
    /\ UNCHANGED <<user_data, loc, chat, fs, tracker, clock, pending, hooklog, sent,
                   upd, outcome, produced, resolved, analysed, active, blocking,
                   history>>

\* a session that keeps the URL it first stored
StoreSessionOnce(session, url, info) ==
    IF "url" \in DOMAIN session THEN session
    ELSE [url |-> PyStr(url), title |-> Get(info, "title", PyStr(<<"Unknown Title">>))]

\* lines 113-114: context.user_data['url'] = url; ['title'] = info.get(...)
StoreSession(session, url, info) ==
    [k \in DOMAIN session \cup {"url", "title"} |->
        IF k = "url" THEN PyStr(url)
        ELSE IF k = "title" THEN Get(info, "title", PyStr(<<"Unknown Title">>))
        ELSE session[k]]

PromptTitle(info) == Get(info, "title", PyStr(<<"Video">>))
PromptUploader(info) == Get(info, "uploader", PyStr(<<"Unknown">>))

\* lines 142-151: the caption, with the two source-supplied strings it embeds
PromptText(info) ==
    [kind |-> "prompt",
     title |-> Sanitize(PromptTitle(info).v),
     uploader |-> Sanitize(PromptUploader(info).v)]

\* line 157: the except block edits the message to the failure report with
\* the text of the exception as it is.  res is what that msg.edit_text call
\* does: when it raises, the exception leaves the handler and the message
\* keeps its text.
FetchFailed(err, res) ==
    /\ IF res = Ok
       THEN /\ chat' = EditText(chat, loc.msg, [kind |-> "fetch_failed", error |-> err])
            /\ outcome' = "fetch_failed"
       ELSE /\ outcome' = "raised"
            /\ UNCHANGED chat
    /\ pc' = "idle"
    /\ loc' = NoLocals

\* lines 109-157, get_formats_sync having returned info: store the session,
\* build the keyboard and the caption, edit the message.  res is what the
\* first messaging call made does: msg.edit_text(caption) of line 153, or,
\* when building the caption raises, the edit of line 157.  When the edit of
\* line 153 raises, the except block runs once the loop resumes the handler.
ExtractReturn(info, res) ==
    /\ pc = "analyzing"
    /\ user_data' = StoreSession(user_data, loc.url, info)
    /\ analysed' = [t |-> "dict", v |-> info]
    /\ blocking' = blocking \cup {OnWorker("extract_info")}
    /\ LET sorted_res == SortedDesc(Resolutions(Get(info, "formats", <<>>)))
       IN  IF PromptTitle(info).t # "str" \/ PromptUploader(info).t # "str"
           THEN /\ FetchFailed(AttributeError, res)
                /\ history' = [history EXCEPT ![Len(history)] =
                                  [@ EXCEPT !.extracted = TRUE]]
           ELSE IF res = Ok
           THEN /\ chat' = [chat EXCEPT ![loc.msg] =
                               Msg(PromptText(info), Keyboard(sorted_res))]
                /\ outcome' = "prompted"
                /\ pc' = "idle"
                /\ loc' = NoLocals
                /\ history' = [history EXCEPT ![Len(history)] =
                                  [@ EXCEPT !.extracted = TRUE, !.prompted = TRUE]]
           ELSE /\ pc' = "fetch_except"
                /\ loc' = [loc EXCEPT !.err = res]
                /\ history' = [history EXCEPT ![Len(history)] =
                                  [@ EXCEPT !.extracted = TRUE]]
                /\ UNCHANGED <<chat, outcome>>
    /\ UNCHANGED <<fs, tracker, clock, pending, hooklog, sent, upd, calls, produced,
                   resolved, active>>

\* a handler that answers a failed extraction by submitting it again
ExtractRaiseRetry(err, res) ==
    /\ pc = "analyzing"
    /\ calls' = [calls EXCEPT !.extract = @ + 1]
    /\ UNCHANGED <<user_data, pc, loc, chat, fs, tracker, clock, pending, hooklog,
                   sent, upd, outcome, produced, resolved, analysed, active,
                   blocking, history>>

\* lines 155-157, get_formats_sync having raised
ExtractRaise(err, res) ==
    /\ pc = "analyzing"
    /\ FetchFailed(err, res)
    /\ blocking' = blocking \cup {OnWorker("extract_info")}
    /\ UNCHANGED <<user_data, fs, tracker, clock, pending, hooklog, sent, upd,
                   calls, produced, resolved, analysed, active, history>>

\* lines 155-157, resumed after msg.edit_text(caption) raised
FetchExcept(res) ==
    /\ pc = "fetch_except"
    /\ FetchFailed(loc.err, res)
    /\ UNCHANGED <<user_data, fs, tracker, clock, pending, hooklog, sent, upd,
                   calls, produced, resolved, analysed, active, blocking, history>>

-----------------------------------------------------------------------------
(* DownloadProgress *)

\* __init__ (start_time is stored and never read)
DownloadProgress(message) == [message |-> message, last_update |-> 0]

\* the edits one progress_hook(d) call schedules at time now
HookEditsUnthrottled(d, now, last) ==
    IF d.status = "downloading" THEN <<ProgressText(d, FALSE)>>
    ELSE IF d.status = "finished" THEN <<ProgressText(d, TRUE)>>
    ELSE <<>>

HookEdits(d, now, last) ==
    IF d.status = "downloading"
    THEN IF Due(now, last) /\ ~UpdateRaises(d, FALSE)
         THEN <<ProgressText(d, FALSE)>>
         ELSE <<>>
    ELSE IF d.status = "finished" THEN <<ProgressText(d, TRUE)>>
    ELSE <<>>

\* whether progress_hook(d) raises: last_update is set by then
HookRaises(d, now, last) ==
    d.status = "downloading" /\ Due(now, last) /\ UpdateRaises(d, FALSE)

\* progress_hook(d), called on the worker thread dt seconds after the clock
\* was last read; each edit is handed to the loop, none is awaited
progress_hook(d, dt) ==
    /\ pc = "downloading"
    /\ clock' = clock + dt
    /\ LET edits == HookEdits(d, clock', tracker.last_update)
       IN  /\ tracker' = IF d.status = "downloading" /\ Due(clock', tracker.last_update)
                         THEN [tracker EXCEPT !.last_update = clock']
                         ELSE tracker
           /\ pending' = pending \o
                  [i \in 1..Len(edits) |-> [message |-> tracker.message, text |-> edits[i]]]
           /\ hooklog' = Append(hooklog,
                  [d |-> d, t |-> clock', last |-> tracker.last_update, edits |-> edits,
                   raised |-> HookRaises(d, clock', tracker.last_update)])
    /\ UNCHANGED <<user_data, pc, loc, chat, fs, sent, upd, calls, outcome, produced,
                   resolved, analysed, active, blocking, history>>

\* lines 72-75: the future run_coroutine_threadsafe returns is dropped; no
\* one waits for the edit or reads its exception
FutureResultAwaitedAlways == TRUE

FutureResultAwaited == FALSE

\* the loop runs one scheduled edit coroutine; its result is never read.
\* The requests are in flight together, so they land in any order.
ApplyEdit(i, res) ==
    /\ i \in 1..Len(pending)
    /\ chat' = IF res = Ok /\ chat[pending[i].message].live
               THEN EditText(chat, pending[i].message, pending[i].text)
               ELSE chat
    /\ pending' = [j \in 1..(Len(pending) - 1) |->
                      IF j < i THEN pending[j] ELSE pending[j + 1]]
    /\ IF FutureResultAwaited /\ res # Ok /\ pc = "downloading"
       THEN /\ pc' = "except"
            /\ loc' = [loc EXCEPT !.err = res]
       ELSE UNCHANGED <<pc, loc>>
    /\ UNCHANGED <<user_data, fs, tracker, clock, hooklog, sent, upd,
                   calls, outcome, produced, resolved, analysed, active, blocking,
                   history>>

-----------------------------------------------------------------------------
(* button_click *)

\* lines 187-210: the downloader options for a choice
YdlOpts(data) ==
    IF data[1] = "video"
    THEN [outtmpl |-> "downloads/%(id)s.%(ext)s",
          format |-> IF data[2] = "best" THEN <<"best[ext=mp4]/best">>
                     ELSE <<"best[height<=", data[2], "][ext=mp4]/best[height<=", data[2], "]">>,
          max_filesize |-> MaxUploadBytes]
    ELSE IF data = <<"audio", "best">>
    THEN [outtmpl |-> "downloads/%(id)s.mp3",
          format |-> <<"bestaudio/best">>,
          postprocessors |-> <<"FFmpegExtractAudio", "mp3", "192">>,
          max_filesize |-> MaxUploadBytes]
    ELSE [outtmpl |-> "downloads/%(id)s.%(ext)s", max_filesize |-> MaxUploadBytes]

SessionNeverExpired(session) == FALSE

\* lines 176-177: url = context.user_data.get('url'); if not url
SessionExpired(session) == ~Truthy(Get(session, "url", PyNone))

Buttons(m) == {chat[m].reply_markup[i].callback_data : i \in 1..Len(chat[m].reply_markup)}

\* lines 165-167: take the click and answer the callback query
button_click(m, data) ==
    /\ Dispatchable
    /\ m \in 1..Len(chat)
    /\ chat[m].live
    /\ data \in Buttons(m)
    /\ Begin([type |-> "click", data |-> data, msg |-> m, session |-> user_data])
    /\ calls' = NoCalls
    /\ outcome' = "none"
    /\ pc' = "click_answered"
    /\ loc' = [data |-> data, msg |-> m]
    /\ UNCHANGED <<user_data, chat, fs, tracker, clock, pending, active, history>>

\* lines 169-182, resumed after query.answer(): delete the message on
\* cancel, report an expired session, or announce the download
ClickAnswered ==
    /\ pc = "click_answered"
    /\ IF loc.data = <<"cancel">>
       THEN /\ chat' = Delete(chat, loc.msg)
            /\ outcome' = "cancelled"
            /\ Return
       ELSE IF SessionExpired(user_data)
       THEN /\ chat' = EditText(chat, loc.msg, [kind |-> "session_expired"])
            /\ outcome' = "expired"
            /\ Return
       ELSE /\ chat' = EditText(chat, loc.msg, [kind |-> "initializing"])
            /\ loc' = [data |-> loc.data, msg |-> loc.msg,
                       url |-> Get(user_data, "url", PyNone)]
            /\ pc' = "click_announced"
            /\ active' = active \cup {loc.msg}
            /\ UNCHANGED <<outcome, tracker>>
    /\ UNCHANGED <<user_data, fs, clock, pending, hooklog, sent, upd, calls,
                   produced, resolved, analysed, blocking, history>>

\* lines 183-215, resumed after the announcement: create the progress
\* tracker, build the options, submit download_sync to the executor
SubmitDownload ==
    /\ pc = "click_announced"
    /\ tracker' = DownloadProgress(loc.msg)
    /\ loc' = [data |-> loc.data, url |-> loc.url, msg |-> loc.msg,
               ydl_opts |-> YdlOpts(loc.data), file_path |-> NoPath,
               info |-> EmptyDict, err |-> Ok, ending |-> "none"]
    /\ calls' = [calls EXCEPT !.download = @ + 1]
    /\ pc' = "downloading"
    /\ UNCHANGED <<user_data, chat, fs, clock, pending, hooklog, sent, upd, outcome,
                   produced, resolved, analysed, active, blocking, history>>

\* download_sync on the worker thread: the collaborator writes a file
DownloadWrites(ext, size) ==
    /\ pc = "downloading"
    /\ LET p == Path(Base(loc.url.v), ext)
       IN  /\ p \notin produced
           /\ fs' = [q \in DOMAIN fs \cup {p} |-> IF q = p THEN size ELSE fs[q]]
           /\ produced' = produced \cup {p}
    /\ UNCHANGED <<user_data, pc, loc, chat, tracker, clock, pending, hooklog,
                   sent, upd, calls, outcome, resolved, analysed, active, blocking,
                   history>>

\* ydl.prepare_filename(info): the output template with the identifier and
\* the extension filled in
PrepareFilename(opts, url, info) ==
    IF opts.outtmpl = "downloads/%(id)s.mp3"
    THEN Path(Base(url), ".mp3")
    ELSE Path(Base(url), info.ext)

\* download_sync returns (prepare_filename(info), info)
DownloadReturns(info) ==
    /\ pc = "downloading"
    /\ loc' = [loc EXCEPT !.file_path = PrepareFilename(loc.ydl_opts, loc.url.v, info),
                          !.info = info]
    /\ pc' = "verify"
    /\ blocking' = blocking \cup {OnWorker("extract_info")}
    /\ UNCHANGED <<user_data, chat, fs, tracker, clock, pending, hooklog, sent,
                   upd, calls, outcome, produced, resolved, analysed, active, history>>

\* download_sync raises: file_path is still None
DownloadRaises(err) ==
    /\ pc = "downloading"
    /\ loc' = [loc EXCEPT !.err = err]
    /\ pc' = "except"
    /\ blocking' = blocking \cup {OnWorker("extract_info")}
    /\ UNCHANGED <<user_data, chat, fs, tracker, clock, pending, hooklog, sent,
                   upd, calls, outcome, produced, resolved, analysed, active, history>>

\* the blocking calls of the finally block, made by the coroutine itself
CleanupOps(files, file_path) ==
    IF file_path = NoPath THEN {}
    ELSE IF Exists(files, file_path) THEN {OnLoop("exists"), OnLoop("remove")}
    ELSE {OnLoop("exists")}

\* lines 217-236: resolve the path, check existence and size, then either
\* report the file too large or announce the upload.  res is what the
\* msg.edit_text call does.
Verify(res) ==
    /\ pc = "verify"
    /\ LET p == ResolvePath(fs, loc.file_path)
       IN  IF ~Exists(fs, p)
           THEN /\ loc' = [loc EXCEPT !.file_path = p, !.err = FileNotFoundError]
                /\ pc' = "except"
                /\ blocking' = blocking \cup {OnLoop("exists")}
                /\ UNCHANGED <<chat, fs, outcome, tracker, resolved, analysed, active>>
           ELSE IF res # Ok
           THEN /\ loc' = [loc EXCEPT !.file_path = p, !.err = res]
                /\ resolved' = [path |-> p, size |-> fs[p]]
                /\ pc' = "except"
                /\ blocking' = blocking \cup {OnLoop("exists"), OnLoop("getsize")}
                /\ UNCHANGED <<chat, fs, outcome, tracker, active>>
           ELSE IF TooLarge(fs[p])
           THEN /\ chat' = EditText(chat, loc.msg, [kind |-> "too_large"])
                /\ loc' = [loc EXCEPT !.file_path = p]
                /\ resolved' = [path |-> p, size |-> fs[p]]
                /\ pc' = "remove_large"
                /\ blocking' = blocking \cup {OnLoop("exists"), OnLoop("getsize")}
                /\ UNCHANGED <<fs, outcome, tracker, active>>
           ELSE /\ chat' = EditText(chat, loc.msg, [kind |-> "uploading"])
                /\ loc' = [loc EXCEPT !.file_path = p]
                /\ resolved' = [path |-> p, size |-> fs[p]]
                /\ pc' = "upload"
                /\ blocking' = blocking \cup {OnLoop("exists"), OnLoop("getsize")}
                /\ UNCHANGED <<fs, outcome, tracker, active>>
    /\ UNCHANGED <<user_data, clock, pending, hooklog, sent, upd, calls, produced,
                   analysed, history>>

\* lines 233-234 and the finally block, resumed after the too-large report:
\* remove the file and return
RemoveTooLarge ==
    /\ pc = "remove_large"
    /\ fs' = Cleanup(Remove(fs, loc.file_path), loc.file_path)
    /\ blocking' = blocking \cup {OnLoop("remove")}
                       \cup CleanupOps(Remove(fs, loc.file_path), loc.file_path)
    /\ outcome' = "too_large"
    /\ Return
    /\ UNCHANGED <<user_data, chat, clock, pending, hooklog, sent, upd, calls,
                   produced, resolved, analysed, history>>

CaptionTitle(info) == Get(info, "title", PyStr(<<"Video">>))

\* lines 239-246: open the file, build the caption and send the attachment.
\* res is what the send_audio / send_video call does.
Upload(res) ==
    /\ pc = "upload"
    /\ IF CaptionTitle(loc.info).t # "str"
       THEN /\ loc' = [loc EXCEPT !.err = AttributeError]
            /\ pc' = "except"
            /\ UNCHANGED <<sent, calls>>
       ELSE LET caption == [title |-> Sanitize(CaptionTitle(loc.info).v)]
                audio == loc.data = <<"audio", "best">>
                att == IF audio
                       THEN [kind |-> "audio", caption |-> caption,
                             title |-> Get(loc.info, "title", PyNone),
                             file |-> loc.file_path]
                       ELSE [kind |-> "video", caption |-> caption,
                             file |-> loc.file_path]
            IN  /\ calls' = IF audio
                            THEN [calls EXCEPT !.send_audio = @ + 1]
                            ELSE [calls EXCEPT !.send_video = @ + 1]
                /\ IF res = Ok
                   THEN /\ sent' = Append(sent, att)
                        /\ pc' = "delete"
                        /\ UNCHANGED loc
                   ELSE /\ loc' = [loc EXCEPT !.err = res]
                        /\ pc' = "except"
                        /\ UNCHANGED sent
    /\ blocking' = blocking \cup {OnLoop("open")}
    /\ UNCHANGED <<user_data, chat, fs, tracker, clock, pending, hooklog, upd,
                   outcome, produced, resolved, analysed, active, history>>

\* line 248.  res is what msg.delete() does.
DeleteStatus(res) ==
    /\ pc = "delete"
    /\ IF res = Ok
       THEN /\ chat' = Delete(chat, loc.msg)
            /\ loc' = [loc EXCEPT !.ending = "done"]
            /\ pc' = "finally"
       ELSE /\ loc' = [loc EXCEPT !.err = res]
            /\ pc' = "except"
            /\ UNCHANGED chat
    /\ UNCHANGED <<user_data, fs, tracker, clock, pending, hooklog, sent, upd, calls,
                   outcome, produced, resolved, analysed, active, blocking, history>>

\* lines 250-254: report the sanitized error.  res is what msg.edit_text
\* does: when it raises, the exception leaves the handler through the
\* finally block and the message keeps its text.
Except(res) ==
    /\ pc = "except"
    /\ IF res = Ok
       THEN /\ chat' = EditText(chat, loc.msg,
                          [kind |-> "error", error |-> Sanitize(loc.err)])
            /\ loc' = [loc EXCEPT !.ending = "error"]
            /\ pc' = "finally"
            /\ UNCHANGED <<fs, outcome, tracker, active, blocking>>
       ELSE /\ fs' = Cleanup(fs, loc.file_path)
            /\ blocking' = blocking \cup CleanupOps(fs, loc.file_path)
            /\ outcome' = "raised"
            /\ Return
            /\ UNCHANGED chat
    /\ UNCHANGED <<user_data, clock, pending, hooklog, sent, upd, calls, produced,
                   resolved, analysed, history>>

\* lines 256-263, resumed after msg.delete() or after the error report
Finally ==
    /\ pc = "finally"
    /\ fs' = Cleanup(fs, loc.file_path)
    /\ blocking' = blocking \cup CleanupOps(fs, loc.file_path)
    /\ outcome' = loc.ending
    /\ Return
    /\ UNCHANGED <<user_data, chat, clock, pending, hooklog, sent, upd, calls,
                   produced, resolved, analysed, history>>

-----------------------------------------------------------------------------
(* The bot: updates, the download worker and the loop's scheduled edits *)

\* the progress events of Spec and SpecDownload
PlainEvents ==
    { [status |-> "downloading", downloaded_bytes |-> PyInt(1), total_bytes |-> PyInt(2)],
      [status |-> "finished", downloaded_bytes |-> PyInt(2), total_bytes |-> PyInt(2)] }

AllButtons ==
    {b.callback_data : b \in {VideoButton(720), BestButton, AudioButton, CancelButton}}

\* the continuation of button_click once the download future is resolved
Continue ==
    \/ \E res \in ApiResults : Verify(res)
    \/ RemoveTooLarge
    \/ \E res \in ApiResults : Upload(res)
    \/ \E res \in ApiResults : DeleteStatus(res)
    \/ \E res \in ApiResults : Except(res)
    \/ Finally

\* Spec: any run of updates, every download writing at most the expected
\* file and reporting no progress (SpecDownload has the rest)
Next ==
    \/ (Len(chat) < MaxMsgs /\ start)
    \/ (Len(chat) < MaxMsgs /\ \E text \in Texts : ask_quality(text))
    \/ SubmitGetFormats
    \/ \E info \in AnalysisInfos, res \in ApiResults : ExtractReturn(info, res)
    \/ \E err \in CollaboratorErrors, res \in ApiResults : ExtractRaise(err, res)
    \/ \E res \in ApiResults : FetchExcept(res)
    \/ \E m \in 1..MaxMsgs, data \in AllButtons : button_click(m, data)
    \/ ClickAnswered
    \/ SubmitDownload
    \/ (produced = {} /\ \E size \in FileSizes : DownloadWrites(".mp4", size))
    \/ \E info \in DownloadInfos : DownloadReturns(info)
    \/ \E err \in CollaboratorErrors : DownloadRaises(err)
    \/ Continue

Spec == Init /\ [][Next]_vars

\* the state of a fresh process, with an empty chat
InitFresh == Init /\ chat = <<>>

\* a fresh process whose downloads directory is empty as well
InitClean == InitFresh /\ fs = EmptyDict

\* the analysis every narrower specification starts with
VideoInfo ==
    [title |-> PyStr(DirtyTitle), uploader |-> PyStr(DirtyUploader),
     formats |-> <<Fmt("avc1", PyInt(720))>>]

Analyse ==
    \/ (chat = <<>> /\ ask_quality(UrlA))
    \/ SubmitGetFormats
    \/ ExtractReturn(VideoInfo, Ok)

\* SpecDownload: one analysis, then one click and its download, with every
\* file, size, progress event and messaging failure
NextDownload ==
    \/ Analyse
    \/ \E data \in AllButtons : button_click(1, data)
    \/ ClickAnswered
    \/ SubmitDownload
    \/ (Cardinality(produced) < MaxWrites
          /\ \E ext \in WrittenExts, size \in FileSizes : DownloadWrites(ext, size))
    \/ (Len(hooklog) < MaxDlEvents /\ \E d \in PlainEvents : progress_hook(d, MaxGap))
    \/ \E info \in DownloadInfos : DownloadReturns(info)
    \/ \E err \in CollaboratorErrors : DownloadRaises(err)
    \/ Continue
    \/ \E i \in 1..MaxDlEvents, res \in ApiResults : ApplyEdit(i, res)

SpecDownload == InitFresh /\ [][NextDownload]_vars

-----------------------------------------------------------------------------
(* SpecKeyboard: one analysis over every format list up to MaxFormats *)

VideoHeights == {144, 240, 480, 720, 1080}

\* formats as the extractor lists them: video formats, an audio-only format
\* that carries a height, and a video format without one
FormatValues ==
    {Fmt("avc1", PyInt(h)) : h \in VideoHeights}
        \cup {Fmt("none", PyInt(720)), Fmt("avc1", PyNone)}

NextKeyboard ==
    \/ (chat = <<>> /\ ask_quality(UrlA))
    \/ SubmitGetFormats
    \/ (pc = "analyzing"
          /\ \E n \in 0..MaxFormats : \E fl \in [1..n -> FormatValues] :
                ExtractReturn([title |-> PyStr(DirtyTitle), formats |-> fl], Ok))

SpecKeyboard == InitClean /\ [][NextKeyboard]_vars

-----------------------------------------------------------------------------
(* SpecThrottle and SpecRender: one DownloadProgress instance *)

StartDownload ==
    \/ Analyse
    \/ button_click(1, <<"video", "720">>)
    \/ ClickAnswered
    \/ SubmitDownload

\* events that differ in status only; "error" is the status the hook ignores
ThrottleEvents ==
    {[status |-> st, downloaded_bytes |-> PyInt(1), total_bytes |-> PyInt(2)] :
        st \in {"downloading", "finished", "error"}}

NextThrottle ==
    \/ StartDownload
    \/ (Len(hooklog) < MaxHookCalls
          /\ \E d \in ThrottleEvents, dt \in 0..MaxGap : progress_hook(d, dt))

SpecThrottle == InitClean /\ [][NextThrottle]_vars

\* the values a byte count takes: the key missing, None, or a number
Missing == [t |-> "missing"]
WithKey(d, k, x) ==
    IF x = Missing THEN d
    ELSE [j \in DOMAIN d \cup {k} |-> IF j = k THEN x ELSE d[j]]

\* 29 of 50 bytes: a pair on which the float product falls short of the
\* exact one
Downloaded == {Missing, PyNone, PyInt(29)} \cup {PyInt(n) : n \in 0..MaxBytes}
Totals == {Missing, PyNone, PyInt(0), PyInt(2), PyInt(50)}
Estimates == {Missing, PyNone, PyInt(0), PyInt(3)}
Percents == {Missing, PyNone, PyStr(<<" ", "5", "0", ".", "0", "%", " ">>)}

RenderEvents ==
    {WithKey(WithKey(WithKey(WithKey([status |-> "downloading"],
        "downloaded_bytes", a), "total_bytes", b), "total_bytes_estimate", c),
        "_percent_str", p) :
        a \in Downloaded, b \in Totals, c \in Estimates, p \in Percents}

NextRender ==
    \/ StartDownload
    \/ (Len(hooklog) < MaxRenderCalls
          /\ \E d \in RenderEvents : progress_hook(d, MaxGap))

SpecRender == InitClean /\ [][NextRender]_vars

-----------------------------------------------------------------------------
(* Claims *)

Range(q) == {q[i] : i \in 1..Len(q)}

\* a button-click request that started a download has reached a terminal state
Terminal ==
    /\ pc = "idle"
    /\ upd.type = "click"
    /\ outcome \in {"done", "too_large", "error"}

\* C1 (SpecDownload): once a button-click request that started a download has
\* reached a terminal state (status message deleted after the upload, too-large
\* report or error report), no file its download wrote is left in the
\* downloads directory.
C1_NoFileLeftAfterTerminal ==
    Terminal => produced \cap DOMAIN fs = {}

\* C2 (SpecDownload): when the file resolved after a completed download is
\* larger than 50 MiB, neither send_video nor send_audio is called for the
\* request and the file is gone once the request has ended; a file of at most
\* 50 MiB is not reported too large.
C2_OversizeNeverUploaded ==
    resolved # NoPath =>
        /\ resolved.size > 50 * 1024 * 1024 =>
              /\ calls.send_video = 0 /\ calls.send_audio = 0
              /\ \A i \in 1..Len(sent) : sent[i].file # resolved.path
              /\ pc = "idle" => resolved.path \notin DOMAIN fs
        /\ resolved.size <= 50 * 1024 * 1024 => outcome # "too_large"

\* an oversized file was resolved, reported and the request has ended
C2_Witness ==
    /\ Terminal
    /\ outcome = "too_large"
    /\ resolved # NoPath
    /\ resolved.size > 50 * 1024 * 1024
    /\ resolved.path \in produced

InProgress(e) == e.d.status = "downloading"

\* C3 (SpecThrottle): on one DownloadProgress instance, no two in-progress
\* events less than 3 seconds apart both schedule an edit, no in-progress
\* event schedules more than one, and every finished event schedules exactly
\* one edit however recent the previous edit is.
C3_ThrottledEdits ==
    /\ \A i, j \in 1..Len(hooklog) :
          (/\ i < j
           /\ InProgress(hooklog[i]) /\ InProgress(hooklog[j])
           /\ hooklog[j].t - hooklog[i].t < 3)
          => ~(hooklog[i].edits # <<>> /\ hooklog[j].edits # <<>>)
    /\ \A i \in 1..Len(hooklog) :
          /\ InProgress(hooklog[i]) => Len(hooklog[i].edits) <= 1
          /\ hooklog[i].d.status = "finished" => Len(hooklog[i].edits) = 1

\* an in-progress edit, a suppressed in-progress event and a finished event
\* with its edit, all within 3 seconds
C3_Witness ==
    /\ Len(hooklog) = 3
    /\ InProgress(hooklog[1]) /\ Len(hooklog[1].edits) = 1
    /\ InProgress(hooklog[2]) /\ hooklog[2].edits = <<>>
    /\ hooklog[3].d.status = "finished" /\ Len(hooklog[3].edits) = 1
    /\ hooklog[3].t - hooklog[1].t < 3
    /\ Len(pending) = 2

\* the calls before call j that scheduled an edit
EditsBefore(j) == {i \in 1..(j - 1) : hooklog[i].edits # <<>>}

\* C4 (SpecThrottle): an in-progress event is suppressed only if fewer than 3
\* seconds have passed since the last edit: the first in-progress event of a
\* download, and every in-progress event arriving 3 seconds or more (exactly 3
\* included) after the last edit, schedules an edit.
C4_DueEventsScheduled ==
    \A j \in 1..Len(hooklog) :
        (/\ InProgress(hooklog[j])
         /\ \/ EditsBefore(j) = {}
            \/ hooklog[j].t - hooklog[SetMax(EditsBefore(j))].t >= 3)
        => hooklog[j].edits # <<>>

\* the text is http:// or https:// followed by anything
IsHttpText(s) ==
    \/ Len(s) >= 7 /\ SubSeq(s, 1, 7) = <<"h", "t", "t", "p", ":", "/", "/">>
    \/ Len(s) >= 8 /\ SubSeq(s, 1, 8) = <<"h", "t", "t", "p", "s", ":", "/", "/">>

SessionHadUrl == "url" \in DOMAIN upd.session

\* C5 as claimed (Spec): any button click taken while the session holds no
\* URL is answered with "session expired" once its handler has returned, and
\* invokes no collaborator.
C5_AnyClickExpired ==
    (upd.type = "click" /\ ~SessionHadUrl) =>
        /\ pc = "idle" => outcome = "expired"
        /\ calls = [extract |-> 0, download |-> 0, send_video |-> 0, send_audio |-> 0]

\* C5 as amended (Spec): any button click other than cancel taken while the
\* session holds no URL is answered by editing the clicked message to "session
\* expired": its handler goes from the answered callback query straight to
\* that edit and returns, starts nothing, invokes no collaborator and leaves
\* the downloads directory as the process found it.
C5_ChoiceClickExpired ==
    (upd.type = "click" /\ ~SessionHadUrl /\ upd.data # <<"cancel">>) =>
        /\ pc \in {"click_answered", "idle"}
        /\ pc = "idle" =>
              /\ outcome = "expired"
              /\ chat[upd.msg].live
              /\ chat[upd.msg].text.kind = "session_expired"
        /\ calls = [extract |-> 0, download |-> 0, send_video |-> 0, send_audio |-> 0]
        /\ tracker = NoTracker
        /\ fs \in StartDirs

\* a choice button of the stale prompt was clicked with no session
C5_Witness ==
    /\ upd.type = "click"
    /\ ~SessionHadUrl
    /\ upd.data = <<"video", "720">>
    /\ outcome = "expired"

\* C6 (Spec): a text message that begins with neither http:// nor https:// is
\* answered with the invalid-URL message, invokes no collaborator and leaves
\* the session as it was, with no handler left running.
C6_InvalidTextRejected ==
    (upd.type = "text" /\ ~IsHttpText(upd.text)) =>
        /\ outcome = "rejected"
        /\ pc = "idle"
        /\ chat[Len(chat)].text.kind = "invalid_url"
        /\ calls = [extract |-> 0, download |-> 0, send_video |-> 0, send_audio |-> 0]
        /\ user_data = upd.session

\* a text with a cut scheme was rejected while the session held a URL
C6_Witness ==
    /\ upd.type = "text"
    /\ upd.text = <<"h", "t", "t", "p", ":", "a">>
    /\ outcome = "rejected"
    /\ "url" \in DOMAIN user_data

\* the distinct heights of the formats that have a video codec and a
\* non-empty height
VideoHeightsOf(info) ==
    LET formats == IF "formats" \in DOMAIN info THEN info.formats ELSE <<>>
    IN  {f.height.v : f \in {g \in Range(formats) :
            /\ ("vcodec" \notin DOMAIN g \/ g.vcodec # [t |-> "str", v |-> "none"])
            /\ "height" \in DOMAIN g
            /\ g.height.t = "int"
            /\ g.height.v # 0}}

\* the prompt built for the analysed update, and its buttons
Prompted == analysed # NoInfo /\ outcome = "prompted"
PromptKeyboard == chat[Len(chat)].reply_markup
ButtonsOfKind(k) == {i \in 1..Len(PromptKeyboard) : PromptKeyboard[i].text.k = k}
ShownHeights ==
    LET vb == SelectSeq(PromptKeyboard, LAMBDA b : b.text.k = "Video")
    IN  [i \in 1..Len(vb) |-> vb[i].text.res]

\* C7 (SpecKeyboard): the video heights offered are the min(4, n) highest of
\* the n distinct heights of the format list, strictly descending, without
\* duplicates; [1080, 1080, 720, 480, 240, 144] gives [1080, 720, 480, 240].
C7_TopFourHeights ==
    Prompted =>
        LET hs == VideoHeightsOf(analysed.v)
            shown == ShownHeights
        IN  /\ Len(shown) = (IF Cardinality(hs) < 4 THEN Cardinality(hs) ELSE 4)
            /\ \A i, j \in 1..Len(shown) : i < j => shown[i] > shown[j]
            /\ Range(shown) \subseteq hs
            /\ \A h \in hs \ Range(shown) : \A i \in 1..Len(shown) : h < shown[i]
            /\ \A i \in ButtonsOfKind("Video") :
                  PromptKeyboard[i].callback_data = <<"video", ToString(shown[i])>>

\* the format list of the example was analysed and its four choices are shown
C7_Witness ==
    /\ Prompted
    /\ Len(analysed.v.formats) = 6
    /\ [i \in 1..6 |-> analysed.v.formats[i].height] =
          <<PyInt(1080), PyInt(1080), PyInt(720), PyInt(480), PyInt(240), PyInt(144)>>
    /\ \A i \in 1..6 : analysed.v.formats[i].vcodec = PyStr("avc1")
    /\ ShownHeights = <<1080, 720, 480, 240>>

\* C8 (SpecKeyboard): the "best video" choice is offered once when there is
\* no video height and not at all otherwise; one audio-only and one cancel
\* choice are always offered, after every video choice.
C8_GenericChoices ==
    Prompted =>
        /\ Cardinality(ButtonsOfKind("Best Video")) =
              (IF VideoHeightsOf(analysed.v) = {} THEN 1 ELSE 0)
        /\ Cardinality(ButtonsOfKind("Audio Only (MP3)")) = 1
        /\ Cardinality(ButtonsOfKind("Cancel")) = 1
        /\ \A i \in ButtonsOfKind("Video") \cup ButtonsOfKind("Best Video") :
              \A j \in ButtonsOfKind("Audio Only (MP3)") \cup ButtonsOfKind("Cancel") :
                 i < j
        /\ Len(PromptKeyboard) =
              Len(ShownHeights) + Cardinality(ButtonsOfKind("Best Video")) + 2

\* a format list with no video height was analysed: best, audio, cancel
C8_Witness ==
    /\ Prompted
    /\ Len(analysed.v.formats) = 2
    /\ VideoHeightsOf(analysed.v) = {}
    /\ [i \in 1..Len(PromptKeyboard) |-> PromptKeyboard[i].text.k] =
          <<"Best Video", "Audio Only (MP3)", "Cancel">>

\* a byte count that is zero or absent: the key missing, None or 0
ZeroOrAbsent(d, k) == k \notin DOMAIN d \/ d[k].t = "none" \/ d[k] = [t |-> "int", v |-> 0]

\* C9 (SpecRender): for every in-progress event whose total and estimated
\* total are zero or absent, the hook does not raise and the text of the edit
\* shows the placeholder in place of a progress bar.
C9_PlaceholderWithoutTotal ==
    \A i \in 1..Len(hooklog) :
        (/\ InProgress(hooklog[i])
         /\ ZeroOrAbsent(hooklog[i].d, "total_bytes")
         /\ ZeroOrAbsent(hooklog[i].d, "total_bytes_estimate"))
        => /\ ~hooklog[i].raised
           /\ \A k \in 1..Len(hooklog[i].edits) :
                  hooklog[i].edits[k].bar = <<"Traitement...">>

Clean(s) == \A i \in 1..Len(s) : s[i] \notin {"*", "_", Backtick}

Prompts == {i \in 1..Len(chat) : chat[i].text.kind = "prompt"}

\* C10 as claimed (Spec): the quality prompt, the upload caption and the audio
\* title field hold no star, underscore or backtick.
C10_NoControlCharAnywhere ==
    /\ \A i \in Prompts : Clean(chat[i].text.title) /\ Clean(chat[i].text.uploader)
    /\ \A i \in 1..Len(sent) :
          /\ Clean(sent[i].caption.title)
          /\ (sent[i].kind = "audio" /\ sent[i].title.t = "str") => Clean(sent[i].title.v)

\* C10 as amended (Spec): the title and uploader embedded in the quality
\* prompt and the title embedded in the upload caption hold no star,
\* underscore or backtick; the prompt of the analysed update embeds the
\* supplied title with exactly those characters removed.
C10_PromptAndCaptionClean ==
    /\ \A i \in Prompts : Clean(chat[i].text.title) /\ Clean(chat[i].text.uploader)
    /\ \A i \in 1..Len(sent) : Clean(sent[i].caption.title)
    /\ (Prompted /\ "title" \in DOMAIN analysed.v) =>
          chat[Len(chat)].text.title =
              SelectSeq(analysed.v.title.v, LAMBDA c : c \notin {"*", "_", Backtick})

\* an audio upload whose supplied title holds control characters went out with
\* a non-empty caption title
C10_Witness ==
    \E i \in 1..Len(sent) :
        /\ sent[i].kind = "audio"
        /\ sent[i].title.t = "str"
        /\ ~Clean(sent[i].title.v)
        /\ sent[i].caption.title # <<>>
        /\ Clean(sent[i].caption.title)

\* the error texts the chat shows: after a failed analysis and after a failed
\* download, verification or upload
ErrorTexts ==
    {chat[i].text.error :
        i \in {j \in 1..Len(chat) : chat[j].text.kind \in {"fetch_failed", "error"}}}

\* C11 (Spec): every error text shown to the user, whether the failure came
\* during analysis, download, verification or upload, holds no star,
\* underscore or backtick.
C11_ErrorTextClean ==
    \A e \in ErrorTexts : Clean(e)

\* the handler of a click has submitted its download and has not returned
Submitted ==
    pc \in {"downloading", "verify", "remove_large", "upload", "delete", "except",
            "finally"}

\* the handler of a click that announced a download has not returned yet
Requesting == pc = "click_announced" \/ Submitted

\* C12 (Spec): whatever texts and clicks the user sends, at most one download
\* request is under way at a time and at most one message is the status
\* message of such a request: it is the message the running handler and,
\* once the download is submitted, its DownloadProgress instance hold.
C12_OneRequestAtATime ==
    /\ Cardinality(active) <= 1
    /\ Requesting <=> active # {}
    /\ Requesting => active = {loc.msg}
    /\ Submitted => (tracker.message = loc.msg /\ calls.download = 1)
    /\ ~Submitted => tracker = NoTracker
    /\ pc = "click_announced" => calls.download = 0

\* a download is under way for the second prompt while the first prompt
\* still shows its buttons and the session holds a URL
C12_Witness ==
    /\ pc = "downloading"
    /\ active = {2}
    /\ chat[1].live
    /\ chat[1].reply_markup # <<>>
    /\ "url" \in DOMAIN user_data

\* C13 (SpecDownload): a step in which a scheduled progress edit is taken off
\* the loop without changing the chat (the edit failed, or the message was
\* gone) changes nothing of the running request: not where the handler and
\* its download stand, not its locals or recorded error, not the files, the
\* tracker, the collaborator calls, the uploads or the outcome.
C13_FailedEditHarmless ==
    [][(Len(pending') < Len(pending) /\ chat' = chat) =>
          /\ pc' = pc
          /\ loc' = loc
          /\ fs' = fs
          /\ tracker' = tracker
          /\ calls' = calls
          /\ sent' = sent
          /\ produced' = produced
          /\ outcome' = outcome]_vars

\* the one progress edit of the download failed (the message still shows the
\* initializing text, nothing is pending) and download_sync then returned
C13_Witness ==
    /\ pc = "verify"
    /\ Len(hooklog) = 1
    /\ hooklog[1].edits # <<>>
    /\ pending = <<>>
    /\ chat[loc.msg].text.kind = "initializing"
    /\ loc.err = Ok

\* C14 (SpecDownload): every blocking operation done for a request (metadata
\* extraction, download, existence check, size read, file open, removal) ran
\* on a worker-pool thread, none on the event loop.
C14_BlockingOnWorker ==
    \A o \in blocking : o.on = "worker"

Failures == {"rejected", "expired", "fetch_failed", "too_large", "error", "raised"}

\* where a handler submits its collaborator call to the executor
Submitting == {"ask_sent", "click_announced"}

\* C15 (Spec): the handling of one text message calls the extraction
\* collaborator at most once and nothing else, the handling of one click calls
\* the download collaborator at most once and sends at most one attachment;
\* once a request has failed its handler has returned, and the except blocks
\* and the finally block make no call: the call counts change only when a
\* new update is taken, when a handler submits its one collaborator call, or
\* by the upload step of a request that has not failed.
C15_NoRetries ==
    /\ [](/\ calls.extract <= 1
          /\ calls.download <= 1
          /\ calls.send_video + calls.send_audio <= 1
          /\ upd.type = "text" =>
                (calls.download = 0 /\ calls.send_video = 0 /\ calls.send_audio = 0)
          /\ upd.type = "click" => calls.extract = 0
          /\ outcome \in Failures => pc = "idle")
    /\ [][calls' # calls =>
             \/ pc = "idle"
             \/ pc \in Submitting /\ calls = NoCalls
             \/ pc = "upload" /\ loc.err = Ok]_vars

\* an extraction raised, the failure was reported and the handler returned
\* having called the collaborator once
C15_Witness ==
    /\ upd.type = "text"
    /\ outcome = "fetch_failed"
    /\ analysed = NoInfo
    /\ pc = "idle"
    /\ calls.extract = 1

\* C16 (Spec): a cancel click deletes the clicked prompt and returns: its
\* handler goes from the answered callback query straight to the deletion,
\* no collaborator is called, no download is started, no file is written, and
\* the session (URL and title) is what it was when the click was taken.
C16_CancelOnlyDeletes ==
    (upd.type = "click" /\ upd.data = <<"cancel">>) =>
        /\ pc \in {"click_answered", "idle"}
        /\ pc = "idle" => (outcome = "cancelled" /\ ~chat[upd.msg].live)
        /\ pc = "click_answered" => chat[upd.msg].live
        /\ calls = [extract |-> 0, download |-> 0, send_video |-> 0, send_audio |-> 0]
        /\ active = {}
        /\ tracker = NoTracker
        /\ produced = {}
        /\ blocking = {}
        /\ user_data = upd.session

\* a prompt was cancelled while the session held a URL and a title
C16_Witness ==
    /\ upd.type = "click"
    /\ upd.data = <<"cancel">>
    /\ outcome = "cancelled"
    /\ ~chat[upd.msg].live
    /\ "url" \in DOMAIN user_data
    /\ "title" \in DOMAIN user_data

\* the order of the phases of a click's request: downloading, verifying,
\* uploading (the send, then the deletion of the status message), clean-up,
\* with the error report reachable from each of the first three
PhaseOrder ==
    { <<"idle", "ask_sent">>, <<"ask_sent", "analyzing">>, <<"analyzing", "idle">>,
      <<"idle", "click_answered">>, <<"click_answered", "idle">>,
      <<"click_answered", "click_announced">>, <<"click_announced", "downloading">>,
      <<"downloading", "verify">>, <<"downloading", "except">>,
      <<"verify", "upload">>, <<"verify", "except">>, <<"verify", "remove_large">>,
      <<"remove_large", "idle">>,
      <<"upload", "delete">>, <<"upload", "except">>,
      <<"delete", "finally">>, <<"delete", "except">>,
      <<"except", "finally">>, <<"except", "idle">>,
      <<"finally", "idle">> }

UploadCalls == calls.send_video + calls.send_audio

\* C17 (SpecDownload): the handler of a click moves only along downloading,
\* verifying, uploading, done (or into the error report).  An upload call is
\* made only by the upload step, which follows a download that returned, a
\* resolved file and a size check that passed; the status message is deleted
\* only after one attachment was sent; and a request that has reported an
\* error or a too-large file returns and uploads nothing afterwards.
C17_PhaseOrder ==
    /\ [](/\ UploadCalls > 0 =>
                /\ resolved # NoPath
                /\ resolved.size <= 50 * 1024 * 1024
                /\ OnWorker("extract_info") \in blocking
                /\ pc \in {"delete", "except", "finally", "idle"}
          /\ (upd.type = "click" /\ upd.data # <<"cancel">> /\ ~chat[upd.msg].live) =>
                (Len(sent) = 1 /\ (outcome = "done" \/ pc = "finally"))
          /\ pc = "finally" => (loc.ending = "done" <=> ~chat[loc.msg].live)
          /\ outcome = "done" => (Len(sent) = 1 /\ ~chat[upd.msg].live)
          /\ outcome = "too_large" => (UploadCalls = 0 /\ sent = <<>>)
          /\ pc = "remove_large" => (UploadCalls = 0 /\ sent = <<>>)
          /\ outcome \in {"too_large", "error", "done", "raised"} => pc = "idle")
    /\ [][/\ pc' # pc => <<pc, pc'>> \in PhaseOrder
          /\ UploadCalls' # UploadCalls =>
                (pc = "idle" \/ (pc = "upload" /\ loc.err = Ok))
          /\ sent' # sent => (pc = "upload" /\ pc' = "delete")
          /\ (pc = "remove_large" /\ pc' = "idle") => outcome' = "too_large"
          /\ (pc = "finally" /\ pc' = "idle") =>
                outcome' = (IF chat[loc.msg].live THEN "error" ELSE "done")
          /\ (pc = "except" /\ pc' = "idle") => outcome' = "raised"
          /\ (pc \in {"remove_large", "except", "finally"}
                \/ outcome \in {"too_large", "error", "raised"}) =>
                (calls' = calls /\ sent' = sent)]_vars

\* a file of exactly 50 MiB went through all four phases: it was resolved,
\* sent, and the status message was deleted
C17_Witness ==
    /\ outcome = "done"
    /\ pc = "idle"
    /\ Len(sent) = 1
    /\ resolved # NoPath
    /\ resolved.size = 50 * 1024 * 1024
    /\ ~chat[upd.msg].live

\* the total a progress event gives: the exact one, or else the estimate
\* (0 when it gives neither as a positive number)
TotalOf(d) ==
    IF "total_bytes" \in DOMAIN d /\ d.total_bytes.t = "int" /\ d.total_bytes.v > 0
    THEN d.total_bytes.v
    ELSE IF "total_bytes_estimate" \in DOMAIN d /\ d.total_bytes_estimate.t = "int"
            /\ d.total_bytes_estimate.v > 0
    THEN d.total_bytes_estimate.v
    ELSE 0

FilledCells(bar) == Cardinality({j \in 1..Len(bar) : bar[j] = "#"})

\* C18 (SpecRender): a bar rendered for an in-progress event has exactly 15
\* cells, of which between 0 and 15 are filled, and when the event gives the
\* downloaded bytes and a total (exact, or else estimated) the filled cells
\* are floor(15 * downloaded / total), also when downloaded exceeds the total.
C18_BarOfFifteenCells ==
    \A i \in 1..Len(hooklog) :
        LET e == hooklog[i]
        IN  (InProgress(e) /\ e.edits # <<>> /\ e.edits[1].bar # <<"Traitement...">>) =>
                /\ Len(e.edits[1].bar) = 15
                /\ FilledCells(e.edits[1].bar) \in 0..15
                /\ ("downloaded_bytes" \in DOMAIN e.d /\ e.d.downloaded_bytes.t = "int"
                        /\ TotalOf(e.d) > 0) =>
                      FilledCells(e.edits[1].bar) =
                          (15 * e.d.downloaded_bytes.v) \div TotalOf(e.d)

\* the text messages whose extraction returned, and those answered with the
\* choice prompt
ExtractedMsgs == {i \in 1..Len(history) : history[i].extracted}
PromptedMsgs == {i \in 1..Len(history) : history[i].prompted}

\* the text of the last message of a set, as the session stores it
UrlOfLast(S) == IF S = {} THEN [t |-> "none"] ELSE [t |-> "str", v |-> history[SetMax(S)].text]

SessionUrl == IF "url" \in DOMAIN user_data THEN user_data.url ELSE [t |-> "none"]

\* C19 as claimed (Spec): the session URL, and the URL a click hands to the
\* download collaborator, is the text of the most recent message whose
\* analysis ended with the choice prompt; rejected texts and analyses that
\* ended with the failure report leave the session URL alone.
C19_UrlOfLastPrompted ==
    /\ SessionUrl = UrlOfLast(PromptedMsgs)
    /\ Requesting => loc.url = UrlOfLast(PromptedMsgs)

\* C19 as amended (Spec): the session URL, and the URL a click hands to the
\* download collaborator, is the text of the most recent message for which
\* the extraction collaborator returned, whether or not the choice prompt
\* could then be shown; rejected texts and extractions that raised leave the
\* session URL alone, and a click on an older prompt downloads that most
\* recent URL.
C19_UrlOfLastExtracted ==
    /\ SessionUrl = UrlOfLast(ExtractedMsgs)
    /\ Requesting => (loc.url = UrlOfLast(ExtractedMsgs) /\ loc.url.t = "str")

\* two URLs were analysed and the click on the first one's prompt started
\* the download of the second URL
C19_Witness ==
    /\ pc = "downloading"
    /\ loc.msg = 1
    /\ Len(history) = 2
    /\ history[1].prompted
    /\ history[2].extracted
    /\ history[1].text # history[2].text
    /\ loc.url = [t |-> "str", v |-> history[2].text]

\* the handler of a click has applied its uploading, too-large or error text
\* to the status message, or has deleted it
PostDownloadApplied ==
    /\ upd.type = "click"
    /\ \/ pc \in {"upload", "delete", "remove_large", "finally"}
       \/ pc = "idle" /\ outcome \in {"too_large", "error", "done"}

\* C20 (SpecDownload): once the handler has applied its uploading, too-large
\* or error text or deleted the status message, the message is gone or shows
\* one of those texts: no progress edit scheduled from the worker thread
\* lands on it afterwards, however the scheduled edits interleave with the
\* handler's own.
C20_NoLateProgressEdit ==
    PostDownloadApplied =>
        \/ ~chat[upd.msg].live
        \/ chat[upd.msg].text.kind \in {"uploading", "too_large", "error"}

=============================================================================
